---- MODULE Spec2Model ----
(***************************************************************************)
(* Model of make-repo.py: the publish pipeline of the virtio-win mirror.   *)
(*                                                                         *)
(* The mirror tree is a function from paths (sequences of components,      *)
(* relative to LOCAL_ROOT_DIR) to nodes (directory, regular file, symlink).*)
(* A text file's content is the sequence of its lines, each line carrying  *)
(* its terminating newline.                                                *)
(***************************************************************************)
EXTENDS Integers, Sequences, FiniteSets, TLC

VARIABLES
    fs,        \* the local mirror tree under LOCAL_ROOT_DIR
    pc,        \* position of main() in the pipeline
    opts,      \* the parsed command line and the environment of this invocation
    build,     \* the build artifacts this invocation publishes
    cmds,      \* rsync commands issued by this invocation, in order
    confirm,   \* the operator's answer at the review gate
    failure,   \* why this invocation failed ("" while it has not)
    notes,     \* notices printed by this invocation
    indexed,   \* createrepo_c invocations of this invocation, in order
    runs,      \* invocations started so far
    call,      \* the latest _add_relative_link call (link specification)
    sync,      \* source and destination of one rsync (filter specification)
    buildroot, \* what this invocation finds under --rpm-buildroot and --rpm-output
    steps,     \* the functions this invocation has called so far, in order
    before,    \* the mirror tree as this invocation found it
    remote     \* the tree on the hosting server (fedorapeople.org)

vars == <<fs, pc, opts, build, cmds, confirm, failure, notes, indexed, runs, call, sync,
          buildroot, steps, before, remote>>

---------------------------------------------------------------------------
(* Bounds *)

MaxRuns == 2

MaxCalls == 3

---------------------------------------------------------------------------
(* Paths *)

Dirname(p) == SubSeq(p, 1, Len(p) - 1)

Basename(p) == p[Len(p)]

RECURSIVE PathStr(_)
PathStr(p) ==
    IF Len(p) = 0 THEN ""
    ELSE IF Len(p) = 1 THEN p[1]
    ELSE p[1] \o "/" \o PathStr(Tail(p))

RECURSIVE Normalize(_)
Normalize(p) ==
    IF Len(p) = 0 THEN <<>>
    ELSE LET head == Normalize(Dirname(p))
             last == p[Len(p)]
         IN IF last = "." THEN head
            ELSE IF last = ".." THEN (IF Len(head) = 0 THEN <<>> ELSE Dirname(head))
            ELSE Append(head, last)

RECURSIVE CommonPrefixLen(_, _)
CommonPrefixLen(a, b) ==
    IF Len(a) = 0 \/ Len(b) = 0 \/ a[1] # b[1] THEN 0
    ELSE 1 + CommonPrefixLen(Tail(a), Tail(b))

\* os.path.relpath(path, start), both relative to the same directory
Relpath(path, start) ==
    LET i   == CommonPrefixLen(start, path)
        ups == [k \in 1..(Len(start) - i) |-> ".."]
        rel == ups \o SubSeq(path, i + 1, Len(path))
    IN IF Len(rel) = 0 THEN <<".">> ELSE rel

---------------------------------------------------------------------------
(* Filesystem nodes and primitives *)

DirNode == [kind |-> "dir", data |-> <<>>, target |-> <<>>]

FileNode(d) == [kind |-> "file", data |-> d, target |-> <<>>]

LinkNode(t) == [kind |-> "link", data |-> <<>>, target |-> t]

Put(f, p, node) == (p :> node) @@ f

Remove(f, p) == [q \in (DOMAIN f) \ {p} |-> f[q]]

\* depth of symlink chains followed before ELOOP
MaxLinkDepth == 3

NoPath == <<"", "">>

RECURSIVE Resolve(_, _, _)
\* the path a path resolves to, following symlinks at its last component;
\* NoPath when it resolves to nothing (the root <<>> is in every tree)
Resolve(f, p, n) ==
    IF p \notin DOMAIN f THEN NoPath
    ELSE IF f[p].kind # "link" THEN p
    ELSE IF n = 0 THEN NoPath
    ELSE Resolve(f, Normalize(Dirname(p) \o f[p].target), n - 1)

\* os.path.exists: follows symlinks, False for a dangling link
Exists(f, p) == Resolve(f, p, MaxLinkDepth) # NoPath

\* os.path.lexists
Lexists(f, p) == p \in DOMAIN f

\* os.path.islink
Islink(f, p) == p \in DOMAIN f /\ f[p].kind = "link"

\* os.readlink
Readlink(f, p) == f[p].target

IsDir(f, p) == Exists(f, p) /\ f[Resolve(f, p, MaxLinkDepth)].kind = "dir"

\* the entries directly inside directory d
Entries(f, d) == {p \in DOMAIN f : Len(p) = Len(d) + 1 /\ Dirname(p) = d}

\* "cp <file> <dir>": the file lands in the directory under its basename,
\* as a regular file (cp follows a symlink given as its source)
Cp(f, src, dstdir) == Put(f, Append(dstdir, src.name), FileNode(src.data))

RECURSIVE CpAll(_, _, _)
CpAll(f, srcs, dstdir) ==
    IF Len(srcs) = 0 THEN f
    ELSE CpAll(Cp(f, srcs[1], dstdir), Tail(srcs), dstdir)

---------------------------------------------------------------------------
(* Program constants *)

STABLE_RPMS == <<"0.1.185-2", "0.1.171-1", "0.1.160-1", "0.1.141-1",
                 "0.1.126-2", "0.1.110-1", "0.1.102-1", "0.1.96-1">>

LOCAL_REPO_DIR == <<"repo">>

LOCAL_DIRECT_DIR == <<"direct-downloads">>

HTTP_DIRECT_DIR == "/groups/virt/virtio-win/direct-downloads"

\* the disk-image alias names, in the order _populate_local_tree visits them
MediaBasenames == <<"virtio-win_x86.vfd", "virtio-win_amd64.vfd", "virtio-win.iso">>

---------------------------------------------------------------------------
(* Local repo tree populating *)

make_redirect_swapped(root, old, new) ==
    "redirect permanent " \o root \o "/" \o new \o " " \o root \o "/" \o old \o "\n"

make_redirect(root, old, new) ==
    "redirect permanent " \o root \o "/" \o old \o " " \o root \o "/" \o new \o "\n"

\* "ln -s <srcrelpath> <linkpath>" run through shellcomm: [fs, ok]
LnS(f, srcrelpath, linkpath) ==
    IF Lexists(f, linkpath) THEN
        IF IsDir(f, linkpath) /\ ~Lexists(f, Append(linkpath, Basename(srcrelpath)))
        THEN \* ln puts the link inside an existing directory
             [fs |-> Put(f, Append(linkpath, Basename(srcrelpath)), LinkNode(srcrelpath)),
              ok |-> TRUE]
        ELSE \* "File exists", also for a dangling symlink
             [fs |-> f, ok |-> FALSE]
    ELSE IF ~IsDir(f, Dirname(linkpath)) THEN [fs |-> f, ok |-> FALSE]
    ELSE [fs |-> Put(f, linkpath, LinkNode(srcrelpath)), ok |-> TRUE]

\* line 80: the test that decides whether an old link is looked at
LinkPresent(f, linkpath) == Exists(f, linkpath)

LinkUpToDate_never(f, linkpath, srcrelpath) == FALSE

\* lines 81-82: the link already points to the wanted relative path
LinkUpToDate(f, linkpath, srcrelpath) ==
    Islink(f, linkpath) /\ Readlink(f, linkpath) = srcrelpath

SrcMissing_unchecked(f, srcpath) == FALSE

\* line 75
SrcMissing(f, srcpath) == ~Exists(f, srcpath)

\* lines 83-84: what _add_relative_link prints when it leaves a link alone
NothingToDo(linkpath) == "nothing to do: " \o PathStr(linkpath)

\* _add_relative_link: the tree afterwards, the filesystem operations it
\* performed, how it ended ("" for a normal return) and what it printed
add_relative_link(f, topdir, srcname, linkname) ==
    LET srcpath    == topdir \o srcname
        linkpath   == topdir \o linkname
        srcrelpath == Relpath(srcname, Dirname(linkname))
    IN IF SrcMissing(f, srcpath)
       THEN [fs |-> f, ops |-> <<>>, err |-> "BrokenTargetError", notes |-> {}]
       ELSE IF LinkPresent(f, linkpath)
       THEN IF LinkUpToDate(f, linkpath, srcrelpath)
            THEN [fs |-> f, ops |-> <<>>, err |-> "", notes |-> {NothingToDo(linkpath)}]
            ELSE IF f[linkpath].kind = "dir"
            THEN \* os.unlink of a directory raises
                 [fs |-> f, ops |-> <<>>, err |-> "OSError", notes |-> {}]
            ELSE LET r == LnS(Remove(f, linkpath), srcrelpath, linkpath)
                 IN [fs |-> r.fs,
                     ops |-> IF r.ok THEN <<"unlink", "ln">> ELSE <<"unlink">>,
                     err |-> IF r.ok THEN "" ELSE "ExternalToolError",
                     notes |-> {}]
       ELSE LET r == LnS(f, srcrelpath, linkpath)
            IN [fs |-> r.fs,
                ops |-> IF r.ok THEN <<"ln">> ELSE <<>>,
                err |-> IF r.ok THEN "" ELSE "ExternalToolError",
                notes |-> {}]

---------------------------------------------------------------------------
(* Build artifacts: what _populate_local_tree finds under --rpm-buildroot  *)
(* and --rpm-output.  A build is [version, buildnum, qemuga]: its          *)
(* extracted tree is <version>-<buildnum>.x86_64.                          *)

VirtioBuilds ==
    { [version |-> "virtio-win-0.1.189", buildnum |-> "1"],
      [version |-> "virtio-win-0.1.200", buildnum |-> "1"] }

QemugaBuilds == {"qemu-ga-win-100.0.0.0-3.el7ev", "qemu-ga-win-101.1.0-1.el7ev"}

Builds ==
    { [version |-> v.version, buildnum |-> v.buildnum, qemuga |-> q] :
          v \in VirtioBuilds, q \in QemugaBuilds }

NoBuild == [version |-> "", buildnum |-> "", qemuga |-> ""]

\* line 230: the extracted tree's basename without its architecture suffix
virtio_release_str(b) == b.version \o "-" \o b.buildnum

\* line 231: the release without its trailing build number
virtio_version_str(b) == b.version

\* lines 115-118
qemuga_basedir(b) == <<"archive-qemu-ga", b.qemuga>>

virtio_basedir(b) == <<"archive-virtio", virtio_release_str(b)>>

\* the bytes of a build artifact: they differ from build to build
Blob(name, b) == <<name \o " built for " \o virtio_release_str(b) \o "+" \o b.qemuga>>

Artifact(name, b) == [name |-> name, data |-> Blob(name, b)]

\* line 245: sharedir/guest-agent/*
qemugapaths(b) == <<Artifact("qemu-ga-i386.msi", b), Artifact("qemu-ga-x86_64.msi", b)>>

\* line 256: the version-stamped file a disk-image symlink resolves to
versionfile(b, basename) ==
    CASE basename = "virtio-win_x86.vfd"   -> b.version \o "_x86.vfd"
      [] basename = "virtio-win_amd64.vfd" -> b.version \o "_amd64.vfd"
      [] basename = "virtio-win.iso"       -> b.version \o ".iso"

\* lines 249-257: the (versionfile, symlink) pairs; both names lead to the
\* same bytes, the symlink resolving to the version-stamped file
virtiopaths(b) ==
    [i \in 1..Len(MediaBasenames) |->
        [versionfile |-> Artifact(versionfile(b, MediaBasenames[i]), b),
         symlink     |-> [name |-> MediaBasenames[i],
                          data |-> Blob(versionfile(b, MediaBasenames[i]), b)]]]

\* line 261: sharedir/installer/*
virtiogtpaths(b) == <<Artifact("virtio-win-gt-x64.msi", b), Artifact("virtio-win-gt-x86.msi", b)>>

\* line 208: NEW_BUILDS_DIR/*
buildinputpaths(b) == <<Artifact("virtio-win-prewhql-sources.zip", b)>>

\* line 271: rpm_output/**/*.rpm; a package name is a stem and a suffix
rpms(b) ==
    << [stem |-> virtio_release_str(b), suffix |-> ".noarch.rpm"],
       [stem |-> virtio_release_str(b), suffix |-> ".src.rpm"] >>

RpmArtifact(r, b) == Artifact(r.stem \o r.suffix, b)

---------------------------------------------------------------------------
(* What _populate_local_tree derives from the buildroot (lines 222-242).   *)
(* The basename of an extracted tree is the sequence of its characters, so *)
(* that the splits and the two patterns work on it as the code's do.       *)

RECURSIVE Str(_)
\* the string a sequence of characters spells
Str(cs) == IF Len(cs) = 0 THEN "" ELSE cs[1] \o Str(Tail(cs))

\* line 224: every match of "virtio-win*.x86_64" starts and ends like this
GlobPrefix == <<"v", "i", "r", "t", "i", "o", "-", "w", "i", "n">>

GlobSuffix == <<".", "x", "8", "6", "_", "6", "4">>

\* the position of the last sep in cs, 0 when there is none
LastIndex(cs, sep) ==
    LET hits == {i \in 1..Len(cs) : cs[i] = sep}
    IN IF hits = {} THEN 0 ELSE CHOOSE i \in hits : \A j \in hits : j <= i

\* str.rsplit(sep, 1)
Rsplit(cs, sep) ==
    LET i == LastIndex(cs, sep)
    IN IF i = 0 THEN <<cs>>
       ELSE <<SubSeq(cs, 1, i - 1), SubSeq(cs, i + 1, Len(cs))>>

\* line 230
release_of(basename) == Rsplit(basename, ".")[1]

\* line 231
version_of(release) == Rsplit(release, "-")[1]

\* the part of the release that line 231 splits off
buildnum_of(release) ==
    IF Len(Rsplit(release, "-")) = 2 THEN Rsplit(release, "-")[2] ELSE <<>>

\* \d
Digits == {"0", "1", "2", "3", "4", "5", "6", "7", "8", "9"}

\* [\d\.]
VersionChars == Digits \cup {"."}

StartsWith(cs, pre) == Len(cs) >= Len(pre) /\ SubSeq(cs, 1, Len(pre)) = pre

\* line 232: re.match(r"virtio-win-[\d\.]+", s); re.match looks for the
\* pattern at the start of s and does not ask that it reach the end
MatchVersion(cs) ==
    LET n == Len(GlobPrefix) + 1
    IN /\ StartsWith(cs, Append(GlobPrefix, "-"))
       /\ Len(cs) > n
       /\ cs[n + 1] \in VersionChars

\* line 233: re.match(r"virtio-win-[\d\.]+-\d+", s)
MatchRelease(cs) ==
    LET n == Len(GlobPrefix) + 1
    IN /\ StartsWith(cs, Append(GlobPrefix, "-"))
       /\ \E k \in 1..(Len(cs) - n - 2) :
             /\ \A j \in 1..k : cs[n + j] \in VersionChars
             /\ cs[n + k + 1] = "-"
             /\ cs[n + k + 2] \in Digits

\* lines 224-242 for the extracted tree glob returned first: how the
\* derivation ends and, when it succeeds, the identifiers LocalRepo gets.
\* Of several companion directories, any may come first.
populate_locals(root, extract_dir) ==
    LET virtio_release == release_of(extract_dir)
        virtio_version == version_of(virtio_release)
    IN IF ~root.sharedir
       THEN {[err |-> "DiscoveryError", build |-> NoBuild]}
       ELSE IF ~MatchVersion(virtio_version) \/ ~MatchRelease(virtio_release)
       THEN {[err |-> "MalformedVersionError", build |-> NoBuild]}
       ELSE IF root.qemuga_dirs = {}
       THEN {[err |-> "DiscoveryError", build |-> NoBuild]}
       ELSE { [err |-> "",
               build |-> [version  |-> Str(virtio_version),
                          buildnum |-> Str(buildnum_of(virtio_release)),
                          qemuga   |-> q]] : q \in root.qemuga_dirs }

\* lines 224-242: glob.glob lists a directory in no particular order, so
\* of several extracted trees any may be the one at index 0
populate_outcomes(root) ==
    IF root.extract_dirs = {}
    THEN {[err |-> "DiscoveryError", build |-> NoBuild]}
    ELSE UNION { populate_locals(root, d) : d \in root.extract_dirs }

\* the basenames of the extracted trees of VirtioBuilds
Basename189 ==
    GlobPrefix \o <<"-", "0", ".", "1", ".", "1", "8", "9", "-", "1">> \o GlobSuffix

Basename200 ==
    GlobPrefix \o <<"-", "0", ".", "1", ".", "2", "0", "0", "-", "1">> \o GlobSuffix

\* a buildroot and build output with everything in place
CleanRoot(d, q) ==
    [extract_dirs |-> {d},      \* line 224: the matches of virtio-win*.x86_64
     sharedir     |-> TRUE,     \* line 226: usr/share/virtio-win/ is there
     qemuga_dirs  |-> {q},      \* line 239: the matches of */qemu-ga-win*
     guest_agent  |-> TRUE,     \* line 245: guest-agent/* matches something
     symlinks     |-> "link",   \* lines 254-255: what the disk-image names are
     installer    |-> TRUE,     \* line 261: installer/* matches something
     rpms         |-> TRUE]     \* line 271: **/*.rpm matches something

CleanRoots == {CleanRoot(d, q) : d \in {Basename189, Basename200}, q \in QemugaBuilds}

\* the build of release 0.1.200-1 with one thing missing or ambiguous
DefectRoots ==
    LET r == CleanRoot(Basename200, "qemu-ga-win-101.1.0-1.el7ev")
    IN { [r EXCEPT !.extract_dirs = {}],
         [r EXCEPT !.extract_dirs = {Basename189, Basename200}],
         [r EXCEPT !.sharedir = FALSE],
         [r EXCEPT !.qemuga_dirs = {}],
         [r EXCEPT !.qemuga_dirs = QemugaBuilds],
         [r EXCEPT !.guest_agent = FALSE],
         [r EXCEPT !.symlinks = "missing"],
         [r EXCEPT !.symlinks = "file"],
         [r EXCEPT !.installer = FALSE],
         [r EXCEPT !.rpms = FALSE] }

BuildRoots == CleanRoots \cup DefectRoots

NoRoot == [extract_dirs |-> {}, sharedir |-> FALSE, qemuga_dirs |-> {},
           guest_agent |-> FALSE, symlinks |-> "missing", installer |-> FALSE,
           rpms |-> FALSE]

---------------------------------------------------------------------------
(* class LocalRepo.  Each method is an operator from the tree before to    *)
(* [fs, err, notes]: the tree after, the failure ("" for none) and the     *)
(* notices printed.  Where one step's tree feeds the next, it is bound     *)
(* through a singleton set, so that it is computed once.                   *)

\* lines 125-127
RpmDest(r) == IF r.suffix = ".src.rpm" THEN "srpms" ELSE "rpms"

RECURSIVE add_rpms(_, _, _)
add_rpms(f, b, paths) ==
    IF Len(paths) = 0 THEN f
    ELSE add_rpms(Cp(f, RpmArtifact(paths[1], b), Append(LOCAL_REPO_DIR, RpmDest(paths[1]))),
                  b, Tail(paths))

AlreadyUploaded_never(f, qemugadir) == FALSE

\* line 136
AlreadyUploaded(f, qemugadir) == Exists(f, qemugadir)

\* lines 130-143
add_qemuga(f, b, paths) ==
    LET qemugadir == LOCAL_DIRECT_DIR \o qemuga_basedir(b)
    IN IF AlreadyUploaded(f, qemugadir)
       THEN [fs |-> f, err |-> "", notes |-> {"qemuga has already been uploaded, skipping"}]
       ELSE IF Lexists(f, qemugadir)
       THEN \* line 141: os.mkdir raises when the path is there
            [fs |-> f, err |-> "OSError", notes |-> {}]
       ELSE [fs |-> CpAll(Put(f, qemugadir, DirNode), paths, qemugadir),
             err |-> "", notes |-> {}]

\* lines 145-152
add_virtiogt(f, b, paths) ==
    CpAll(f, paths, LOCAL_DIRECT_DIR \o virtio_basedir(b))

AlreadyPublished_never(f, virtiodir) == FALSE

\* line 161
AlreadyPublished(f, virtiodir) == Exists(f, virtiodir)

\* lines 169-170: what one (versionfile, symlink) pair puts into the directory
MediaCopies(pair) == <<pair.versionfile, pair.symlink>>

RECURSIVE MediaCopyAll(_, _, _)
MediaCopyAll(f, paths, virtiodir) ==
    IF Len(paths) = 0 THEN f
    ELSE MediaCopyAll(CpAll(f, MediaCopies(paths[1]), virtiodir), Tail(paths), virtiodir)

\* lines 166-173: the accumulated redirect rules, one line per pair
MediaHtaccess(b, paths) ==
    [i \in 1..Len(paths) |->
        make_redirect(HTTP_DIRECT_DIR \o "/" \o PathStr(virtio_basedir(b)),
                      paths[i].symlink.name, paths[i].versionfile.name)]

add_virtiowin_media_skipping(f, b, paths) ==
    LET virtiodir == LOCAL_DIRECT_DIR \o virtio_basedir(b)
    IN IF AlreadyPublished(f, virtiodir)
       THEN [fs |-> f, err |-> "", notes |-> {"media has already been uploaded, skipping"}]
       ELSE [fs |-> Put(MediaCopyAll(Put(f, virtiodir, DirNode), paths, virtiodir),
                        Append(virtiodir, ".htaccess"),
                        FileNode(MediaHtaccess(b, paths))),
             err |-> "", notes |-> {}]

\* lines 154-178
add_virtiowin_media(f, b, paths) ==
    LET virtiodir == LOCAL_DIRECT_DIR \o virtio_basedir(b)
    IN IF AlreadyPublished(f, virtiodir)
       THEN [fs |-> f, err |-> "AlreadyPublishedError", notes |-> {}]
       ELSE IF Lexists(f, virtiodir)
       THEN \* line 165: os.mkdir raises when the path is there
            [fs |-> f, err |-> "OSError", notes |-> {}]
       ELSE [fs |-> Put(MediaCopyAll(Put(f, virtiodir, DirNode), paths, virtiodir),
                        Append(virtiodir, ".htaccess"),
                        FileNode(MediaHtaccess(b, paths))),
             err |-> "", notes |-> {}]

\* line 191: the stable alias follows the newest StableList entry
StableTarget == <<"archive-virtio", "virtio-win-" \o STABLE_RPMS[1]>>

TopLevelLinks_stable_is_latest(b) ==
    << [src |-> qemuga_basedir(b), link |-> <<"latest-qemu-ga">>],
       [src |-> virtio_basedir(b), link |-> <<"latest-virtio">>],
       [src |-> virtio_basedir(b), link |-> <<"stable-virtio">>] >>

\* lines 188-192: the (src, link) pairs of the top-level aliases, in order
TopLevelLinks(b) ==
    << [src |-> qemuga_basedir(b), link |-> <<"latest-qemu-ga">>],
       [src |-> virtio_basedir(b), link |-> <<"latest-virtio">>],
       [src |-> StableTarget,      link |-> <<"stable-virtio">>] >>

\* lines 182-185
add_link(f, src, link) ==
    LET r == add_relative_link(f, LOCAL_DIRECT_DIR, src, link)
    IN [fs |-> r.fs, ops |-> r.ops, err |-> r.err, notes |-> r.notes,
        rule |-> make_redirect(HTTP_DIRECT_DIR, PathStr(link), PathStr(src))]

RECURSIVE AddLinks(_, _, _)
\* the add_link calls in order; the first failure ends the run
AddLinks(f, links, htaccess) ==
    IF Len(links) = 0 THEN [fs |-> f, err |-> "", htaccess |-> htaccess, notes |-> {}]
    ELSE CHOOSE res \in
            { IF r.err # ""
              THEN [fs |-> r.fs, err |-> r.err, htaccess |-> htaccess, notes |-> r.notes]
              ELSE [AddLinks(r.fs, Tail(links), Append(htaccess, r.rule)) EXCEPT
                       !.notes = @ \cup r.notes] :
                  r \in {add_link(f, links[1].src, links[1].link)} } : TRUE

\* lines 180-194
add_htaccess_stable_links(f, b) ==
    CHOOSE res \in
        { IF r.err # "" THEN [fs |-> r.fs, err |-> r.err, notes |-> r.notes]
          ELSE [fs |-> Put(r.fs, Append(LOCAL_DIRECT_DIR, ".htaccess"), FileNode(r.htaccess)),
                err |-> "", notes |-> r.notes] :
              r \in {AddLinks(f, TopLevelLinks(b), <<>>)} } : TRUE

InputPresent_never(f, pkg_input_dir) == FALSE

\* line 204
InputPresent(f, pkg_input_dir) == Exists(f, pkg_input_dir)

\* lines 196-212
add_pkg_build_input(f, b) ==
    LET pkg_input_topdir == Append(LOCAL_DIRECT_DIR, "virtio-win-pkg-scripts-input")
        pkg_input_dir    == Append(pkg_input_topdir, virtio_release_str(b))
        present          == InputPresent(f, pkg_input_dir)
        copied == IF present THEN f
                  ELSE CpAll(Put(f, pkg_input_dir, DirNode), buildinputpaths(b), pkg_input_dir)
    IN IF ~present /\ Lexists(f, pkg_input_dir)
       THEN \* line 207: os.mkdir raises when the path is there
            [fs |-> f, err |-> "OSError", notes |-> {}]
       ELSE
       CHOOSE res \in
         { [fs |-> r.fs, err |-> r.err,
            notes |-> (IF present THEN {"build input exists, not changing content"} ELSE {})
                      \cup r.notes] :
               r \in { add_relative_link(f1, pkg_input_topdir,
                                         <<Basename(pkg_input_dir)>>, <<"latest-build">>) :
                           f1 \in {copied} } } : TRUE

---------------------------------------------------------------------------
(* Repo generate + push *)

StableRpmName(stablever) == "virtio-win-" \o stablever \o ".noarch.rpm"

RECURSIVE StableLinks(_, _)
\* lines 286-290
StableLinks(f, vers) ==
    IF Len(vers) = 0 THEN [fs |-> f, err |-> "", notes |-> {}]
    ELSE CHOOSE res \in
            { IF r.err # "" THEN [fs |-> r.fs, err |-> r.err, notes |-> r.notes]
              ELSE [StableLinks(r.fs, Tail(vers)) EXCEPT !.notes = @ \cup r.notes] :
                  r \in {add_relative_link(f, LOCAL_REPO_DIR,
                                           <<"rpms", StableRpmName(vers[1])>>,
                                           <<"stable", StableRpmName(vers[1])>>)} } : TRUE

\* lines 295-297: the call the latest loop makes for one name
latest_link(f, n) == add_relative_link(f, LOCAL_REPO_DIR, <<"rpms", n>>, <<"latest", n>>)

RECURSIVE LatestLinks(_, _)
\* lines 293-297 over names in some order, up to the first call that fails
LatestLinks(f, names) ==
    IF names = {} THEN [fs |-> f, err |-> "", notes |-> {}]
    ELSE LET n == CHOOSE x \in names : TRUE
         IN CHOOSE res \in
              { IF r.err # "" THEN [fs |-> r.fs, err |-> r.err, notes |-> r.notes]
                ELSE [LatestLinks(r.fs, names \ {n}) EXCEPT !.notes = @ \cup r.notes] :
                    r \in {latest_link(f, n)} } : TRUE

\* lines 293-297: glob.glob lists rpms/ in no particular order.  Each call
\* touches its own link only, so when none fails the order does not show;
\* when some would fail, the loop ends at the first of them the glob lists,
\* with any of the others done before it.
LatestOutcomes(f, names) ==
    UNION { IF bad = {} THEN {LatestLinks(f, names)}
            ELSE { CHOOSE res \in
                     { [fs |-> r.fs, err |-> r.err, notes |-> d.notes \cup r.notes] :
                           r \in {latest_link(d.fs, g)} } : TRUE :
                       d \in {LatestLinks(f, P) : P \in SUBSET (names \ bad)},
                       g \in bad } :
              bad \in { {n \in names : latest_link(f, n).err # ""} } }

\* line 300
RpmDirs == <<"latest", "stable", "srpms">>

\* the packages createrepo_c finds in a directory: its entries that are, or
\* resolve to, regular files
Packages(f, d) ==
    { Basename(p) : p \in { q \in Entries(f, d) :
                              /\ Exists(f, q)
                              /\ f[Resolve(f, q, MaxLinkDepth)].kind = "file" } }

RECURSIVE Createrepo(_, _)
\* lines 300-304: createrepo_c leaves <rpmdir>/repodata/repomd.xml behind,
\* the index of the packages it found in <rpmdir>
Createrepo(f, dirs) ==
    IF Len(dirs) = 0 THEN f
    ELSE LET repodata == LOCAL_REPO_DIR \o <<dirs[1], "repodata">>
         IN Createrepo(Put(Put(f, repodata, DirNode),
                           Append(repodata, "repomd.xml"),
                           FileNode(<<"repomd of " \o dirs[1],
                                      Packages(f, Append(LOCAL_REPO_DIR, dirs[1]))>>)),
                       Tail(dirs))

\* lines 300-304: createrepo_c runs through shellcomm on each directory in
\* turn; an exit status other than 0 ends the run there, with the
\* directories before it indexed
CreaterepoOutcomes(f) ==
    { [fs |-> Createrepo(f, RpmDirs), err |-> "", indexed |-> RpmDirs] } \cup
    { [fs |-> Createrepo(f, SubSeq(RpmDirs, 1, k - 1)), err |-> "ExternalToolError",
       indexed |-> SubSeq(RpmDirs, 1, k)] : k \in 1..Len(RpmDirs) }

\* lines 306-312: copy, but not if content is unchanged
CpIfChanged(f, data, dstpath) ==
    IF Exists(f, dstpath) /\ f[dstpath].data = data
    THEN [fs |-> f, notes |-> {"up to date: " \o PathStr(dstpath)}]
    ELSE [fs |-> Put(f, dstpath, FileNode(data)), notes |-> {}]

\* line 293: the names glob finds in rpms/
RepoGlob(f) == {Basename(p) : p \in Entries(f, Append(LOCAL_REPO_DIR, "rpms"))}

\* lines 314-319
RootFiles(f) ==
    CHOOSE res \in
        { CHOOSE res2 \in
            { [fs |-> c2.fs, notes |-> c1.notes \cup c2.notes] :
                  c2 \in {CpIfChanged(c1.fs, <<"data/rpm_changelog">>, <<"CHANGELOG">>)} } : TRUE :
              c1 \in {CpIfChanged(f, <<"data/virtio-win.repo">>, <<"virtio-win.repo">>)} } : TRUE

\* lines 279-319: the ways one call of _generate_repos can end on tree f
generate_repos(f) ==
    UNION
      { IF s.err # ""
        THEN {[fs |-> s.fs, err |-> s.err, indexed |-> <<>>, notes |-> s.notes]}
        ELSE UNION
          { IF l.err # ""
            THEN {[fs |-> l.fs, err |-> l.err, indexed |-> <<>>,
                   notes |-> s.notes \cup l.notes]}
            ELSE { IF c.err # ""
                   THEN [fs |-> c.fs, err |-> c.err, indexed |-> c.indexed,
                         notes |-> s.notes \cup l.notes]
                   ELSE CHOOSE res \in
                          { [fs |-> t.fs, err |-> "", indexed |-> c.indexed,
                             notes |-> s.notes \cup l.notes \cup t.notes] :
                                t \in {RootFiles(c.fs)} } : TRUE :
                       c \in CreaterepoOutcomes(l.fs) } :
              l \in LatestOutcomes(s.fs, RepoGlob(s.fs)) } :
          s \in {StableLinks(f, STABLE_RPMS)} }

\* rsync filter rules: the first rule that matches a path decides
Rule(kind, parts, dironly) == [kind |-> kind, parts |-> parts, dironly |-> dironly]

\* line 352: --exclude repodata
ContentOpts ==
    [rules |-> <<Rule("exclude", <<"repodata">>, FALSE)>>, delete |-> FALSE]

\* lines 355-359: --include "*/" --include "repodata/*" --exclude "*" --delete
MetadataOpts ==
    [rules |-> <<Rule("include", <<"*">>, TRUE),
                 Rule("include", <<"repodata", "*">>, FALSE),
                 Rule("exclude", <<"*">>, FALSE)>>,
     delete |-> TRUE]

RsyncPhases_swapped == <<"metadata", "content">>

\* lines 350-360: the two commands of _run_rsync, in the order it issues them
RsyncPhases == <<"content", "metadata">>

PhaseOpts(phase) == IF phase = "content" THEN ContentOpts ELSE MetadataOpts

\* lines 323-348: the command _cmd builds
rsync_cmd(phase, reverse, dry) ==
    [phase   |-> phase,
     opts    |-> PhaseOpts(phase),
     dry     |-> dry,
     reverse |-> reverse,
     chown   |-> ~reverse,
     src     |-> IF reverse THEN "remote" ELSE "local",
     dst     |-> IF reverse THEN "local" ELSE "remote",
     st      |-> "running"]

---------------------------------------------------------------------------
(* What rsync does with the options of _run_rsync.  Here a tree is a set   *)
(* of entries [path, dir].  rsync reads its                                *)
(* filter rules in order and the first that matches decides; a pattern     *)
(* without a leading slash is matched against the end of the path, "*"     *)
(* stands for one path component, and a pattern ending in "/" matches      *)
(* directories only.  An excluded directory is not entered.  With --delete *)
(* the receiving side removes what the sender's list lacks, but never an   *)
(* excluded entry, and a directory only once it is empty.                  *)

Entry(path, dir) == [path |-> path, dir |-> dir]

Matches(rule, e) ==
    LET n == Len(rule.parts)
    IN /\ Len(e.path) >= n
       /\ rule.dironly => e.dir
       /\ \A k \in 1..n :
             rule.parts[k] = "*" \/ rule.parts[k] = e.path[Len(e.path) - n + k]

RECURSIVE FirstMatch(_, _)
FirstMatch(rules, e) ==
    IF Len(rules) = 0 THEN "include"
    ELSE IF Matches(rules[1], e) THEN rules[1].kind
    ELSE FirstMatch(Tail(rules), e)

Excluded(rules, e) == FirstMatch(rules, e) = "exclude"

\* the directories above an entry, and the entry itself
Ancestry(e) ==
    { Entry(SubSeq(e.path, 1, k), k < Len(e.path) \/ e.dir) : k \in 1..Len(e.path) }

\* the sender's file list
Listed(rules, tree) ==
    { e \in tree : \A a \in Ancestry(e) : ~Excluded(rules, a) }

Parent(e) == Entry(Dirname(e.path), TRUE)

RECURSIVE Attempted(_, _, _, _)
\* the receiver tries to delete e: it is not on the sender's list, no rule
\* protects it, and the directory holding it is scanned or being emptied
Attempted(rules, sent, dst, e) ==
    /\ e \in dst
    /\ e \notin sent
    /\ ~Excluded(rules, e)
    /\ \/ Len(e.path) = 1
       \/ Parent(e) \in sent
       \/ Attempted(rules, sent, dst, Parent(e))

RECURSIVE Removed(_, _, _, _)
Removed(rules, sent, dst, e) ==
    /\ Attempted(rules, sent, dst, e)
    /\ e.dir => \A c \in {x \in dst : Len(x.path) > 1 /\ Parent(x) = e} :
                    Removed(rules, sent, dst, c)

\* the destination after "rsync <opts> src/ dst"
Rsync(o, src, dst) ==
    LET sent == Listed(o.rules, src)
        gone == IF o.delete THEN {e \in dst : Removed(o.rules, sent, dst, e)} ELSE {}
    IN (dst \ gone) \cup sent

\* the entries of a mirror tree; a symbolic link is sent as a link (--archive)
TreeEntries(f) == { Entry(p, f[p].kind = "dir") : p \in DOMAIN f \ {<<>>} }

\* the destination tree once the entries in sent have arrived as the source
\* has them and --delete has removed what it may
RsyncMerge(o, src, dst, sent, dstE) ==
    CHOOSE res \in
      { [p \in {<<>>} \cup {e.path : e \in (dstE \ gone) \cup sent} |->
            IF p \in {e.path : e \in sent} THEN src[p] ELSE dst[p]] :
          gone \in { IF o.delete
                     THEN {e \in dstE : Removed(o.rules, sent, dstE, e)}
                     ELSE {} } } : TRUE

\* lines 323-360: "rsync --archive <opts> src/ dst" without --dry-run, on
\* mirror trees
RsyncTree(o, src, dst) ==
    CHOOSE res \in
      { RsyncMerge(o, src, dst, sent, dstE) :
          sent \in {Listed(o.rules, TreeEntries(src))},
          dstE \in {TreeEntries(dst)} } : TRUE

\* lines 343-348 and 352, 360: what one command of _run_rsync leaves behind
\* on the two sides.  A dry run transfers nothing; with --resync the remote
\* is the source and LOCAL_ROOT_DIR the destination, otherwise the other
\* way round.
rsync_effect(c, moved, local, rem) ==
    IF c.dry \/ ~moved THEN [local |-> local, remote |-> rem]
    ELSE IF c.reverse
    THEN [local |-> RsyncTree(c.opts, rem, local), remote |-> rem]
    ELSE [local |-> local, remote |-> RsyncTree(c.opts, local, rem)]

---------------------------------------------------------------------------
(* The review gate *)

AfterReview_ignored(answer) == "real1"

\* lines 373-377: the review gate of _push_repos
AfterReview(answer) == IF answer THEN "real1" ELSE "aborted"

---------------------------------------------------------------------------
(* The mirror as an invocation finds it: the StableList releases published *)
(* and indexed by earlier runs.                                            *)

OldBuild ==
    [version |-> "virtio-win-0.1.185", buildnum |-> "2",
     qemuga |-> "qemu-ga-win-100.0.0.0-3.el7ev"]

Skeleton ==
    [p \in { <<>>, <<"repo">>, <<"repo", "rpms">>, <<"repo", "srpms">>,
             <<"repo", "latest">>, <<"repo", "stable">>,
             <<"direct-downloads">>,
             <<"direct-downloads", "archive-virtio">>,
             <<"direct-downloads", "archive-qemu-ga">>,
             <<"direct-downloads", "virtio-win-pkg-scripts-input">> } |-> DirNode]

RECURSIVE StableRpmsIn(_, _)
StableRpmsIn(f, vers) ==
    IF Len(vers) = 0 THEN f
    ELSE StableRpmsIn(Put(f, <<"repo", "rpms", StableRpmName(vers[1])>>,
                          FileNode(<<StableRpmName(vers[1])>>)),
                      Tail(vers))

\* the tree after the newest StableList release was published
Populated(f0, b) ==
    CHOOSE res \in
      { add_rpms(f5, b, rpms(b)) :
          f5 \in { add_pkg_build_input(f4, b).fs :
          f4 \in { add_htaccess_stable_links(f3, b).fs :
          f3 \in { add_virtiogt(f2, b, virtiogtpaths(b)) :
          f2 \in { add_virtiowin_media(f1, b, virtiopaths(b)).fs :
          f1 \in { add_qemuga(f0, b, qemugapaths(b)).fs } } } } } } : TRUE

InitialTree ==
    CHOOSE res \in
      { (CHOOSE r \in generate_repos(f1) : r.err = "").fs :
          f1 \in { Populated(f0, OldBuild) :
          f0 \in { StableRpmsIn(Skeleton, STABLE_RPMS) } } } : TRUE

---------------------------------------------------------------------------
(* main() handling *)

\* util.utils.fail: the message is printed and the process exits non-zero
fail == "failed"

\* util.utils.shellcomm: the command runs to its end before shellcomm
\* returns, and a non-zero exit status is fatal
shellcomm(ok, next) == IF ok THEN next ELSE fail

\* lines 389-397: each path option given or not, each flag set or not;
\* line 42: the environment variable set or not
Options ==
    [rpm_output : BOOLEAN, rpm_buildroot : BOOLEAN,
     regenerate_only : BOOLEAN, resync : BOOLEAN, FAS_USERNAME : BOOLEAN]

NoOptions ==
    [rpm_output |-> FALSE, rpm_buildroot |-> FALSE,
     regenerate_only |-> FALSE, resync |-> FALSE, FAS_USERNAME |-> FALSE]

AfterPopulate_generate(o) == "generate"

AfterPopulate_push(o) == "dry1"

\* lines 414-416: what main does once the tree is populated (or need not be)
AfterPopulate(o) == IF ~o.resync THEN "generate" ELSE "dry1"

Dispatch_unchecked(o) ==
    IF ~o.regenerate_only /\ ~o.resync THEN "populate" ELSE AfterPopulate(o)

\* lines 405-412
Dispatch(o) ==
    IF ~o.regenerate_only /\ ~o.resync
    THEN IF ~o.rpm_output \/ ~o.rpm_buildroot THEN fail ELSE "populate"
    ELSE AfterPopulate(o)

\* lines 37-46, called by the class body of LocalRepo (line 96) when the
\* module is loaded, before main
get_fas_username(o) == IF ~o.FAS_USERNAME THEN fail ELSE "ok"

\* lines 96 and 402-412: where an invocation stands when main has parsed
\* the command line and picked its mode
Startup(o) == IF get_fas_username(o) = fail THEN fail ELSE Dispatch(o)

Terminal == {"done", "failed", "aborted"}

Running == Len(cmds) > 0 /\ cmds[Len(cmds)].st = "running"

NoCall == [n |-> 0, topdir |-> <<>>, src |-> <<>>, link |-> <<>>,
           ops |-> <<>>, err |-> "", rule |-> "", prevrule |-> "",
           before |-> Skeleton, repeat |-> FALSE]

NoSync == [stage |-> "none", src |-> {}, dst |-> {}, before |-> {}]

Init ==
    /\ fs = InitialTree
    /\ pc = "idle"
    /\ opts = NoOptions
    /\ build = NoBuild
    /\ cmds = <<>>
    /\ confirm = "none"
    /\ failure = ""
    /\ notes = {}
    /\ indexed = <<>>
    /\ runs = 0
    /\ call = NoCall
    /\ sync = NoSync
    /\ buildroot = NoRoot
    /\ steps = <<>>
    /\ before = fs
    /\ remote = InitialTree

\* One invocation begins: the class body of LocalRepo reads the environment
\* (lines 96-97), then main parses the command line and picks its mode.
Start ==
    /\ pc \in Terminal \cup {"idle"}
    /\ runs < MaxRuns
    /\ \E o \in Options :
          /\ opts' = o
          /\ pc' = Startup(o)
          /\ failure' = IF Startup(o) = fail THEN "UsageError" ELSE ""
          /\ buildroot' \in IF Startup(o) = "populate" THEN BuildRoots ELSE {NoRoot}
    /\ build' = NoBuild
    /\ runs' = runs + 1
    /\ cmds' = <<>>
    /\ confirm' = "none"
    /\ notes' = {}
    /\ indexed' = <<>>
    /\ steps' = <<>>
    /\ before' = fs
    /\ UNCHANGED <<fs, call, sync, remote>>

\* a step of _populate_local_tree ends, having called the functions named:
\* on to the next step, or the run fails
Step(called, r, next) ==
    /\ fs' = r.fs
    /\ failure' = r.err
    /\ notes' = notes \cup r.notes
    /\ steps' = steps \o called
    /\ pc' = IF r.err = "" THEN next ELSE fail
    /\ UNCHANGED <<opts, cmds, confirm, indexed, runs, call, sync, buildroot, before, remote>>

\* a glob that matched nothing, or an assertion that did not hold
Missing(f) == [fs |-> f, err |-> "DiscoveryError", notes |-> {}]

\* lines 222-242: derive the release identifiers; no side effects
Discover ==
    /\ pc = "populate"
    /\ \E d \in populate_outcomes(buildroot) :
          /\ build' = d.build
          /\ Step(<<"populate_local_tree">>,
                  [fs |-> fs, err |-> d.err, notes |-> {}], "add_qemuga")

\* lines 244-246
AddQemuga ==
    /\ pc = "add_qemuga"
    /\ IF ~buildroot.guest_agent
       THEN Step(<<>>, Missing(fs), "add_media")
       ELSE \E r \in {add_qemuga(fs, build, qemugapaths(build))} :
               Step(<<"add_qemuga">>, r, "add_media")
    /\ UNCHANGED build

\* lines 248-258
AddVirtiowinMedia ==
    /\ pc = "add_media"
    /\ IF buildroot.symlinks # "link"
       THEN Step(<<>>, Missing(fs), "add_virtiogt")
       ELSE \E r \in {add_virtiowin_media(fs, build, virtiopaths(build))} :
               Step(<<"add_virtiowin_media">>, r, "add_virtiogt")
    /\ UNCHANGED build

\* lines 260-262
AddVirtiogt ==
    /\ pc = "add_virtiogt"
    /\ IF ~buildroot.installer
       THEN Step(<<>>, Missing(fs), "add_links")
       ELSE Step(<<"add_virtiogt">>,
                 [fs |-> add_virtiogt(fs, build, virtiogtpaths(build)),
                  err |-> "", notes |-> {}],
                 "add_links")
    /\ UNCHANGED build

\* lines 264-265
AddHtaccessStableLinks ==
    /\ pc = "add_links"
    /\ \E r \in {add_htaccess_stable_links(fs, build)} :
          Step(<<"add_htaccess_stable_links">>, r, "add_build_input")
    /\ UNCHANGED build

\* lines 267-268
AddPkgBuildInput ==
    /\ pc = "add_build_input"
    /\ \E r \in {add_pkg_build_input(fs, build)} :
          Step(<<"add_pkg_build_input">>, r, "add_rpms")
    /\ UNCHANGED build

\* lines 270-272, and main's line 414
AddRpms ==
    /\ pc = "add_rpms"
    /\ IF ~buildroot.rpms
       THEN Step(<<>>, Missing(fs), AfterPopulate(opts))
       ELSE Step(<<"add_rpms">>,
                 [fs |-> add_rpms(fs, build, rpms(build)), err |-> "", notes |-> {}],
                 AfterPopulate(opts))
    /\ UNCHANGED build

\* lines 414-415
GenerateRepos ==
    /\ pc = "generate"
    /\ \E r \in generate_repos(fs) :
          /\ fs' = r.fs
          /\ failure' = r.err
          /\ indexed' = r.indexed
          /\ notes' = notes \cup r.notes
          /\ pc' = IF r.err = "" THEN "dry1" ELSE fail
    /\ steps' = Append(steps, "generate_repos")
    /\ UNCHANGED <<opts, build, cmds, confirm, runs, call, sync, buildroot, before, remote>>

SyncPcs == {"dry1", "dry2", "real1", "real2"}

\* the position in _push_repos / _run_rsync: which pass, which command
PcDry(p) == p \in {"dry1", "dry2"}

PcPhase(p) == IF p \in {"dry1", "real1"} THEN RsyncPhases[1] ELSE RsyncPhases[2]

PcNext(p) ==
    CASE p = "dry1"  -> "dry2"
      [] p = "dry2"  -> "confirm"
      [] p = "real1" -> "real2"
      [] p = "real2" -> "done"

\* lines 352, 360: shellcomm starts the next rsync command
RsyncIssue ==
    /\ pc \in SyncPcs
    /\ ~Running
    /\ cmds' = Append(cmds, rsync_cmd(PcPhase(pc), opts.resync, PcDry(pc)))
    /\ UNCHANGED <<fs, pc, opts, build, confirm, failure, notes, indexed, runs, call, sync,
                   buildroot, steps, before, remote>>

\* shellcomm returns: the command ended, and a non-zero exit ends the run.
\* A command that ends well has made its transfer; one that fails has
\* stopped before transferring or after.
RsyncComplete ==
    /\ pc \in SyncPcs
    /\ Running
    /\ \E ok \in BOOLEAN :
          /\ cmds' = [cmds EXCEPT ![Len(cmds)].st = IF ok THEN "ok" ELSE "failed"]
          /\ pc' = shellcomm(ok, PcNext(pc))
          /\ failure' = IF ok THEN "" ELSE "ExternalToolError"
          /\ \E moved \in (IF ok THEN {TRUE} ELSE BOOLEAN) :
                \E t \in {rsync_effect(cmds[Len(cmds)], moved, fs, remote)} :
                   /\ fs' = t.local
                   /\ remote' = t.remote
    /\ UNCHANGED <<opts, build, confirm, notes, indexed, runs, call, sync,
                   buildroot, steps, before>>

\* lines 373-375: the operator reviews the dry run
Review ==
    /\ pc = "confirm"
    /\ \E answer \in BOOLEAN :
          /\ confirm' = IF answer THEN "yes" ELSE "no"
          /\ pc' = AfterReview(answer)
    /\ UNCHANGED <<fs, opts, build, cmds, failure, notes, indexed, runs, call, sync,
                   buildroot, steps, before, remote>>

Next ==
    \/ Start
    \/ Discover
    \/ AddQemuga
    \/ AddVirtiowinMedia
    \/ AddVirtiogt
    \/ AddHtaccessStableLinks
    \/ AddPkgBuildInput
    \/ AddRpms
    \/ GenerateRepos
    \/ RsyncIssue
    \/ RsyncComplete
    \/ Review

Spec == Init /\ [][Next]_vars

---------------------------------------------------------------------------
(* Properties of the pipeline (specification Spec) *)

Cmd(i) == cmds[i]

\* C1: in every sync run, dry or real, push or resync, the content-phase
\* command is issued and has completed successfully before the
\* metadata-phase command of the same pass is issued; the metadata command
\* is never first, and no two commands ever run at the same time.
C1_ContentBeforeMetadata ==
    /\ \A i \in 1..Len(cmds) :
          Cmd(i).phase = "metadata" =>
              /\ i > 1
              /\ Cmd(i - 1).phase = "content"
              /\ Cmd(i - 1).st = "ok"
              /\ Cmd(i - 1).dry = Cmd(i).dry
              /\ Cmd(i - 1).reverse = Cmd(i).reverse
    /\ \A i \in 1..Len(cmds) : Cmd(i).st = "running" => i = Len(cmds)
    /\ pc = "done" =>
          /\ Len(cmds) = 4
          /\ [i \in 1..4 |-> Cmd(i).phase] = <<"content", "metadata", "content", "metadata">>
          /\ \A i \in 1..4 : Cmd(i).st = "ok"

\* a run whose four sync commands all completed
C1_Witness ==
    /\ pc = "done"
    /\ Len(cmds) = 4
    /\ Cmd(4).phase = "metadata" /\ Cmd(4).st = "ok" /\ ~Cmd(4).dry

\* C2: a real sync command is issued only after the dry run of both phases
\* (content, then metadata) completed in the same direction and the operator
\* confirmed; when the operator declines, the invocation has ended and none
\* of its sync commands was a real one.  The receiving side of a sync, the
\* remote tree or with --resync the local one, is changed only by a real
\* command of a confirmed invocation.
C2_RealSyncOnlyAfterReview ==
    /\ [](/\ \A i \in 1..Len(cmds) :
              ~Cmd(i).dry =>
                  /\ i > 2
                  /\ Cmd(1).dry /\ Cmd(1).phase = "content" /\ Cmd(1).st = "ok"
                  /\ Cmd(2).dry /\ Cmd(2).phase = "metadata" /\ Cmd(2).st = "ok"
                  /\ Cmd(1).reverse = Cmd(i).reverse
                  /\ Cmd(2).reverse = Cmd(i).reverse
                  /\ confirm = "yes"
          /\ confirm = "no" =>
                /\ pc = "aborted"
                /\ \A i \in 1..Len(cmds) : Cmd(i).dry)
    /\ [][ (remote' # remote \/ (pc \in SyncPcs /\ fs' # fs)) =>
              /\ confirm = "yes"
              /\ pc \in {"real1", "real2"}
              /\ Running
              /\ ~Cmd(Len(cmds)).dry ]_vars

\* the operator declined after both dry-run commands
C2_Witness ==
    /\ confirm = "no"
    /\ pc = "aborted"
    /\ Len(cmds) = 2

virtiodir == LOCAL_DIRECT_DIR \o virtio_basedir(build)

qemugadir == LOCAL_DIRECT_DIR \o qemuga_basedir(build)

\* C4: the disk-image step, called (its three symlinks were found) when the
\* release directory already exists, fails with AlreadyPublishedError and
\* leaves the whole mirror tree as it was: nothing copied, no directory
\* made, no redirect file written.
C4_MediaStepRefusesExistingRelease ==
    [][ (pc = "add_media" /\ buildroot.symlinks = "link" /\ Exists(fs, virtiodir)) =>
            (fs' = fs /\ pc' = "failed" /\ failure' = "AlreadyPublishedError") ]_vars

\* the step has refused a release whose directory, with its images, is there
C4_Witness ==
    /\ pc = "failed"
    /\ failure = "AlreadyPublishedError"
    /\ Append(virtiodir, ".htaccess") \in DOMAIN fs

\* the positions of a populate run after add_virtiowin_media succeeded
MediaDonePcs ==
    {"add_virtiogt", "add_links", "add_build_input", "add_rpms", "generate",
     "dry1", "dry2", "confirm", "real1", "real2", "done", "aborted"}

\* the positions of a populate run after _populate_local_tree returned
PopulatedPcs ==
    {"generate", "dry1", "dry2", "confirm", "real1", "real2", "done", "aborted"}

NamesIn(d) == {Basename(p) : p \in Entries(fs, d)}

VersionedNames == {versionfile(build, MediaBasenames[i]) : i \in 1..Len(MediaBasenames)}

AliasNames == {MediaBasenames[i] : i \in 1..Len(MediaBasenames)}

InstallerNames == {virtiogtpaths(build)[i].name : i \in 1..Len(virtiogtpaths(build))}

\* C5: after a full publish run the disk images stored in the release
\* directory are exactly the three version-stamped files, no image is stored
\* as a file under its unversioned alias name, and the redirect file has
\* exactly three lines.
C5_Original ==
    (build # NoBuild /\ pc \in PopulatedPcs) =>
        /\ { n \in NamesIn(virtiodir) \ (InstallerNames \cup {".htaccess"}) :
                 fs[Append(virtiodir, n)].kind = "file" } = VersionedNames
        /\ Cardinality(VersionedNames) = 3
        /\ \A n \in AliasNames :
              Append(virtiodir, n) \in DOMAIN fs => fs[Append(virtiodir, n)].kind # "file"
        /\ Len(fs[Append(virtiodir, ".htaccess")].data) = 3

\* What the code leaves in the release directory after a full publish run:
\* the three version-stamped disk images, a regular-file copy of each image
\* under its unversioned alias name (cp follows the alias symlink), the
\* supplementary installer files, and a redirect file of exactly three
\* lines; nothing else.
ReleaseDirContent ==
    (build # NoBuild /\ pc \in PopulatedPcs) =>
        /\ NamesIn(virtiodir) =
               VersionedNames \cup AliasNames \cup InstallerNames \cup {".htaccess"}
        /\ Cardinality(VersionedNames) = 3
        /\ \A i \in 1..Len(MediaBasenames) :
              LET alias     == fs[Append(virtiodir, MediaBasenames[i])]
                  versioned == fs[Append(virtiodir, versionfile(build, MediaBasenames[i]))]
              IN /\ alias.kind = "file"
                 /\ versioned.kind = "file"
                 /\ alias.data = versioned.data
        /\ Len(fs[Append(virtiodir, ".htaccess")].data) = 3

\* a populate run has gone through to the end
C5_Witness ==
    /\ build # NoBuild
    /\ pc = "done"
    /\ Append(virtiodir, "virtio-win.iso") \in DOMAIN fs

ReleaseUrl == "/groups/virt/virtio-win/direct-downloads/archive-virtio/" \o virtio_release_str(build)

\* C6: once the disk-image step has succeeded over N (versioned file, alias)
\* pairs, the release directory holds one redirect file of exactly N lines,
\* the i-th being "redirect permanent <root>/<alias i> <root>/<versioned i>"
\* with <root> the URL path of the release directory.
C6_RedirectFile ==
    (build # NoBuild /\ pc \in MediaDonePcs) =>
        LET lines == fs[Append(virtiodir, ".htaccess")].data
            N     == Len(virtiopaths(build))
        IN /\ fs[Append(virtiodir, ".htaccess")].kind = "file"
           /\ Len(lines) = N
           /\ \A i \in 1..N :
                 lines[i] = "redirect permanent "
                            \o ReleaseUrl \o "/" \o virtiopaths(build)[i].symlink.name
                            \o " "
                            \o ReleaseUrl \o "/" \o virtiopaths(build)[i].versionfile.name
                            \o "\n"

\* the disk-image step has just written the redirect file
C6_Witness ==
    /\ build # NoBuild
    /\ pc = "add_virtiogt"
    /\ Len(fs[Append(virtiodir, ".htaccess")].data) = 3

\* C7: the companion-installer step, called (the guest-agent files were
\* found) when the directory of the companion release already exists,
\* changes nothing in the mirror tree and succeeds: the pipeline goes on to
\* the disk-image step.
C7_QemugaStepSkipsExisting ==
    [][ (pc = "add_qemuga" /\ buildroot.guest_agent /\ Exists(fs, qemugadir)) =>
            (fs' = fs /\ pc' = "add_media" /\ failure' = "") ]_vars

\* the step was skipped and the run is at the next step
C7_Witness ==
    /\ pc = "add_media"
    /\ "qemuga has already been uploaded, skipping" \in notes
    /\ Exists(fs, qemugadir)

\* the functions a complete _populate_local_tree calls, in order
PopulateSteps ==
    <<"populate_local_tree", "add_qemuga", "add_virtiowin_media", "add_virtiogt",
      "add_htaccess_stable_links", "add_pkg_build_input", "add_rpms">>

StepNames == {steps[i] : i \in 1..Len(steps)}

\* C13: an invocation that passes the usage checks executes the steps of
\* exactly one mode, the one its flags select: with --resync (with or
\* without --regenerate-only) it only pulls, with no population and no
\* metadata generation; with --regenerate-only alone it generates and
\* pushes, with no population; with neither it populates, generates and
\* pushes.  A completed invocation has executed all the steps of its mode.
C13_OneModePerInvocation ==
    (runs > 0 /\ failure # "UsageError") =>
        /\ opts.resync =>
              /\ steps = <<>> /\ indexed = <<>>
              /\ \A i \in 1..Len(cmds) : Cmd(i).reverse
              /\ pc = "done" => Len(cmds) = 4
        /\ (opts.regenerate_only /\ ~opts.resync) =>
              /\ StepNames \subseteq {"generate_repos"}
              /\ fs = before \/ "generate_repos" \in StepNames
              /\ \A i \in 1..Len(cmds) : ~Cmd(i).reverse
              /\ pc = "done" => (steps = <<"generate_repos">> /\ Len(cmds) = 4)
        /\ (~opts.regenerate_only /\ ~opts.resync) =>
              /\ opts.rpm_output /\ opts.rpm_buildroot
              /\ \A i \in 1..Len(cmds) : ~Cmd(i).reverse
              /\ pc = "done" =>
                    (steps = Append(PopulateSteps, "generate_repos") /\ Len(cmds) = 4)

\* an invocation given both flags has run to its end as a resync, and the
\* pull has changed the local tree
C13_Witness ==
    /\ pc = "done"
    /\ opts.resync /\ opts.regenerate_only
    /\ Len(cmds) = 4
    /\ Cmd(4).reverse
    /\ fs # before
    /\ remote = InitialTree

\* C14: a run that fails because a build artifact is missing or ambiguous
\* leaves the mirror tree as it found it.
C14_DiscoveryFailureLeavesTree ==
    failure = "DiscoveryError" => fs = before

\* the installer files were missing: the run failed with the companion and
\* release directories of this build already added to the tree
C14_Witness ==
    /\ failure = "DiscoveryError"
    /\ ~buildroot.installer
    /\ steps = <<"populate_local_tree", "add_qemuga", "add_virtiowin_media">>
    /\ Exists(fs, virtiodir)
    /\ ~Exists(before, virtiodir)

\* what does hold: a failure while deriving the identifiers or on the
\* guest-agent files comes before the first change to the tree
EarlyDiscoveryFailureLeavesTree ==
    (failure = "DiscoveryError" /\ "add_qemuga" \notin StepNames) => fs = before

\* C15: an invocation without the account variable, or on the populate path
\* without --rpm-output or --rpm-buildroot, ends in a usage error, and a
\* usage error ends the invocation before any side effect: the tree is as
\* the invocation found it, nothing was populated or generated, and no sync
\* command, dry or real, was issued.
C15_UsageErrorBeforeSideEffects ==
    /\ failure = "UsageError" =>
          /\ pc = "failed"
          /\ fs = before
          /\ steps = <<>>
          /\ indexed = <<>>
          /\ cmds = <<>>
    /\ (runs > 0 /\ ~opts.FAS_USERNAME) => failure = "UsageError"
    /\ ( /\ runs > 0
         /\ ~opts.regenerate_only /\ ~opts.resync
         /\ ~opts.rpm_output \/ ~opts.rpm_buildroot ) => failure = "UsageError"

\* the populate path was asked for with the account variable and the
\* buildroot but without the build-output directory, after an earlier run
\* had populated the tree
C15_Witness ==
    /\ failure = "UsageError"
    /\ opts.FAS_USERNAME
    /\ ~opts.regenerate_only /\ ~opts.resync
    /\ opts.rpm_buildroot /\ ~opts.rpm_output
    /\ runs > 1
    /\ fs # InitialTree

\* the functions a complete invocation of each mode calls, in order
ModeSteps(o) ==
    IF o.resync THEN <<>>
    ELSE IF o.regenerate_only THEN <<"generate_repos">>
    ELSE Append(PopulateSteps, "generate_repos")

IsPrefix(a, b) == Len(a) <= Len(b) /\ SubSeq(b, 1, Len(a)) = a

\* C17: the functions of an invocation are called one after the other in the
\* pipeline's order, none skipped: metadata generation is called only after
\* the whole population, a sync command is issued only after metadata
\* generation has returned with all three indexing invocations made, a run
\* that has a failure is at its end, and from there nothing happens but a
\* new invocation.
C17_StrictlySequential ==
    /\ [] ( /\ IsPrefix(steps, ModeSteps(opts))
            /\ cmds # <<>> =>
                  /\ steps = ModeSteps(opts)
                  /\ ~opts.resync => indexed = RpmDirs
            /\ failure # "" => pc = "failed"
            /\ pc = "failed" => (failure # "" /\ ~Running) )
    /\ [][ pc = "failed" =>
              (runs' = runs + 1 /\ steps' = <<>> /\ cmds' = <<>> /\ fs' = fs) ]_vars

\* the first real sync command of a populate run failed: the run ended there
C17_Witness ==
    /\ pc = "failed"
    /\ failure = "ExternalToolError"
    /\ steps = Append(PopulateSteps, "generate_repos")
    /\ Len(cmds) = 3
    /\ ~Cmd(3).dry /\ Cmd(3).st = "failed"

TopLink(name) == Append(LOCAL_DIRECT_DIR, name)

\* the redirect line of a top-level alias, read off the target its symlink holds
AliasLine(name) ==
    "redirect permanent " \o HTTP_DIRECT_DIR \o "/" \o name \o " "
        \o HTTP_DIRECT_DIR \o "/" \o PathStr(Readlink(fs, TopLink(name))) \o "\n"

\* C18: after a successful populate run latest-virtio is a symlink to the
\* directory of the current release, latest-qemu-ga one to the directory of
\* the current companion release and stable-virtio one to the release
\* directory of the first StableList entry, each resolving to a directory
\* that is there; and the root-level redirect file has exactly three lines,
\* one per alias, each naming the target its symlink points to.
C18_TopLevelAliases ==
    (build # NoBuild /\ pc \in PopulatedPcs) =>
        LET htaccess == fs[TopLink(".htaccess")]
        IN /\ fs[TopLink("latest-virtio")] =
                  LinkNode(<<"archive-virtio", virtio_release_str(build)>>)
           /\ Resolve(fs, TopLink("latest-virtio"), MaxLinkDepth) = virtiodir
           /\ fs[TopLink("latest-qemu-ga")] =
                  LinkNode(<<"archive-qemu-ga", build.qemuga>>)
           /\ Resolve(fs, TopLink("latest-qemu-ga"), MaxLinkDepth) = qemugadir
           /\ fs[TopLink("stable-virtio")] =
                  LinkNode(<<"archive-virtio", "virtio-win-" \o STABLE_RPMS[1]>>)
           /\ IsDir(fs, TopLink("latest-virtio"))
           /\ IsDir(fs, TopLink("latest-qemu-ga"))
           /\ IsDir(fs, TopLink("stable-virtio"))
           /\ htaccess.kind = "file"
           /\ Len(htaccess.data) = 3
           /\ {htaccess.data[i] : i \in 1..3} =
                  {AliasLine("latest-virtio"), AliasLine("latest-qemu-ga"),
                   AliasLine("stable-virtio")}
           /\ Cardinality({htaccess.data[i] : i \in 1..3}) = 3

\* a populate run of release 0.1.200-1 has moved latest-virtio, which an
\* earlier run had left pointing to release 0.1.189-1
C18_Witness ==
    /\ pc = "done"
    /\ build.version = "virtio-win-0.1.200"
    /\ Readlink(before, TopLink("latest-virtio")) = <<"archive-virtio", "virtio-win-0.1.189-1">>
    /\ Readlink(fs, TopLink("latest-virtio")) = <<"archive-virtio", "virtio-win-0.1.200-1">>

\* the positions of an invocation after _generate_repos returned
GeneratedPcs == {"dry1", "dry2", "confirm", "real1", "real2", "done", "aborted"}

PoolPath(n) == <<"repo", "rpms", n>>

\* the alias of package n in a pool directory is a symlink resolving to the
\* package file in rpms/
AliasInPlace(f, dir, n) ==
    /\ Islink(f, <<"repo", dir, n>>)
    /\ Resolve(f, <<"repo", dir, n>>, MaxLinkDepth) = PoolPath(n)
    /\ f[PoolPath(n)].kind = "file"

StableNames == {StableRpmName(STABLE_RPMS[i]) : i \in 1..Len(STABLE_RPMS)}

Repomd(f, dir) == f[<<"repo", dir, "repodata", "repomd.xml">>].data

\* C19: after a successful metadata generation (which only a run that is
\* not a resync makes) every package file in rpms/, of whatever release,
\* has its latest/<filename> alias resolving to it and every StableList
\* entry its stable/<filename> alias; createrepo_c was invoked exactly once
\* on each of latest, stable and srpms, and indexed latest and stable with
\* all these aliases in place; and the generation left every alias that was
\* already in place as it was, reporting that there was nothing to do.
C19_AliasesForWholePool ==
    /\ [] ( ("generate_repos" \in StepNames /\ pc \in GeneratedPcs) =>
               /\ \A n \in RepoGlob(fs) : AliasInPlace(fs, "latest", n)
               /\ \A n \in StableNames : AliasInPlace(fs, "stable", n)
               /\ indexed = <<"latest", "stable", "srpms">>
               /\ Repomd(fs, "latest")[2] = RepoGlob(fs)
               /\ Repomd(fs, "stable")[2] = StableNames )
    /\ [][ (pc = "generate" /\ pc' = "dry1") =>
              \A dir \in {"latest", "stable"} :
                 \A n \in RepoGlob(fs) :
                    AliasInPlace(fs, dir, n) =>
                       /\ fs'[<<"repo", dir, n>>] = fs[<<"repo", dir, n>>]
                       /\ ("nothing to do: repo/" \o dir \o "/" \o n) \in notes' ]_vars

\* a populate run of release 0.1.200-1 has generated: the new package got
\* its latest alias, and the alias of 0.1.185-2 was there already
C19_Witness ==
    /\ pc = "dry1"
    /\ build.version = "virtio-win-0.1.200"
    /\ AliasInPlace(fs, "latest", "virtio-win-0.1.200-1.noarch.rpm")
    /\ <<"repo", "latest", "virtio-win-0.1.200-1.noarch.rpm">> \notin DOMAIN before
    /\ AliasInPlace(before, "latest", "virtio-win-0.1.185-2.noarch.rpm")
    /\ "nothing to do: repo/latest/virtio-win-0.1.185-2.noarch.rpm" \in notes
    /\ Cardinality(RepoGlob(fs)) > Len(STABLE_RPMS)

\* the steps _populate_local_tree takes after the disk-image step
LaterSteps ==
    {"add_virtiogt", "add_htaccess_stable_links", "add_pkg_build_input", "add_rpms"}

---------------------------------------------------------------------------
(* ensureLink on its own (specification SpecLink): _add_relative_link and  *)
(* the redirect rule add_link derives, called with the arguments the       *)
(* program passes at each of its call sites.  A tree has, at one site,     *)
(* each target present or not and the link absent or pointing at one of    *)
(* the targets the program gives it; at the other sites the targets are    *)
(* there and the link is not made yet.                                     *)

\* line 188: add_link(self.qemuga_basedir, "latest-qemu-ga"); the target is
\* the companion directory of the build at hand
QemugaSite ==
    [topdir |-> LOCAL_DIRECT_DIR, link |-> <<"latest-qemu-ga">>,
     srcs |-> { <<"archive-qemu-ga", "qemu-ga-win-100.0.0.0-3.el7ev">>,
                <<"archive-qemu-ga", "qemu-ga-win-101.1.0-1.el7ev">> }]

\* line 189: add_link(self.virtio_basedir, "latest-virtio"); the target is the
\* release directory of the build at hand, so the link moves between releases
DirectSite ==
    [topdir |-> LOCAL_DIRECT_DIR, link |-> <<"latest-virtio">>,
     srcs |-> { <<"archive-virtio", "virtio-win-0.1.189-1">>,
                <<"archive-virtio", "virtio-win-0.1.200-1">> }]

\* lines 190-192: add_link("archive-virtio/virtio-win-<STABLE_RPMS[0]>",
\* "stable-virtio"), the same target at every call
StableVirtioSite ==
    [topdir |-> LOCAL_DIRECT_DIR, link |-> <<"stable-virtio">>,
     srcs |-> { <<"archive-virtio", "virtio-win-" \o STABLE_RPMS[1]>> }]

\* lines 211-212: add_pkg_build_input calls _add_relative_link itself, with
\* the input directory as topdir and the release of the build at hand as
\* target: the link moves between releases and no redirect rule is made
BuildInputSite ==
    [topdir |-> Append(LOCAL_DIRECT_DIR, "virtio-win-pkg-scripts-input"),
     link |-> <<"latest-build">>,
     srcs |-> { <<"virtio-win-0.1.189-1">>, <<"virtio-win-0.1.200-1">> }]

\* lines 286-290: stable/<filename> for a package of STABLE_RPMS; the only
\* target the link is ever given is rpms/<filename>, the same name
StableSite ==
    [topdir |-> LOCAL_REPO_DIR, link |-> <<"stable", StableRpmName(STABLE_RPMS[1])>>,
     srcs |-> { <<"rpms", StableRpmName(STABLE_RPMS[1])>> }]

\* lines 293-297: latest/<filename> for a package found in rpms/, likewise
LatestSite ==
    [topdir |-> LOCAL_REPO_DIR, link |-> <<"latest", StableRpmName(STABLE_RPMS[2])>>,
     srcs |-> { <<"rpms", StableRpmName(STABLE_RPMS[2])>> }]

\* the call sites of _add_relative_link: the three aliases add_link makes in
\* the direct-download area, the alias of the build input, and the
\* per-package aliases in the two directories of the repo
LinkSites ==
    {QemugaSite, DirectSite, StableVirtioSite, BuildInputSite, StableSite, LatestSite}

LinkCalls ==
    UNION { { [topdir |-> s.topdir, src |-> x, link |-> s.link] : x \in s.srcs } :
                s \in LinkSites }

TargetNode(src) == IF src[1] = "rpms" THEN FileNode(<<Basename(src)>>) ELSE DirNode

\* a site's part of a tree: which targets are present, and the link
SiteTrees(s) ==
    { [p \in {s.topdir \o x : x \in present} \cup
             (IF l = <<>> THEN {} ELSE {s.topdir \o s.link}) |->
          IF p = s.topdir \o s.link /\ l # <<>>
          THEN LinkNode(Relpath(l, Dirname(s.link)))
          ELSE TargetNode(SubSeq(p, Len(s.topdir) + 1, Len(p)))] :
        present \in SUBSET s.srcs, l \in s.srcs \cup {<<>>} }

\* the trees of the calls: one site in any of its states, every other site
\* with its targets there and its link not made yet
LinkTrees ==
    LET SitePaths(s) == {s.topdir \o x : x \in s.srcs} \cup {s.topdir \o s.link}
        SiteReady(s) == [p \in {s.topdir \o x : x \in s.srcs} |->
                            TargetNode(SubSeq(p, Len(s.topdir) + 1, Len(p)))]
        AllReady ==
            SiteReady(QemugaSite) @@ SiteReady(DirectSite) @@
            SiteReady(StableVirtioSite) @@ SiteReady(BuildInputSite) @@
            SiteReady(StableSite) @@ SiteReady(LatestSite)
    IN { t @@ [p \in DOMAIN AllReady \ SitePaths(s) |-> AllReady[p]] @@ Skeleton :
           <<s, t>> \in UNION { {s} \X SiteTrees(s) : s \in LinkSites } }

InitLink ==
    /\ fs \in LinkTrees
    /\ call = NoCall
    /\ pc = "idle"
    /\ opts = NoOptions
    /\ build = NoBuild
    /\ cmds = <<>>
    /\ confirm = "none"
    /\ failure = ""
    /\ notes = {}
    /\ indexed = <<>>
    /\ runs = 0
    /\ sync = NoSync
    /\ buildroot = NoRoot
    /\ steps = <<>>
    /\ before = fs
    /\ remote = Skeleton

\* one ensureLink call as the program makes it: through add_link for an
\* alias of the direct-download area (lines 182-185), which returns the
\* redirect rule, and straight to _add_relative_link for an alias inside the
\* repo (lines 288-297), which returns nothing
LinkCall(f, c) ==
    IF c.topdir = LOCAL_DIRECT_DIR
    THEN add_link(f, c.src, c.link)
    ELSE LET r == add_relative_link(f, c.topdir, c.src, c.link)
         IN [fs |-> r.fs, ops |-> r.ops, err |-> r.err, notes |-> r.notes, rule |-> ""]

\* lines 182-185 and 288-297 with lines 68-88: one ensureLink call
EnsureLink ==
    /\ call.n < MaxCalls
    /\ \E c \in LinkCalls :
         \E r \in {LinkCall(fs, c)} :
            /\ fs' = r.fs
            /\ notes' = notes \cup r.notes
            /\ call' = [n        |-> call.n + 1,
                        topdir   |-> c.topdir,
                        src      |-> c.src,
                        link     |-> c.link,
                        ops      |-> r.ops,
                        err      |-> r.err,
                        rule     |-> IF r.err = "" THEN r.rule ELSE "",
                        prevrule |-> call.rule,
                        before   |-> fs,
                        repeat   |-> /\ call.n > 0
                                     /\ call.err = ""
                                     /\ call.topdir = c.topdir
                                     /\ call.src = c.src
                                     /\ call.link = c.link]
    /\ UNCHANGED <<pc, opts, build, cmds, confirm, failure, indexed, runs, sync,
                   buildroot, steps, before, remote>>

NextLink == EnsureLink

SpecLink == InitLink /\ [][NextLink]_vars

CallSrcPath == call.topdir \o call.src

CallLinkPath == call.topdir \o call.link

\* the relative path from the link's directory to the target, spelled out
\* for the two shapes of call: a top-level link names the target as it is,
\* a link one directory down climbs one level first
CallRelTarget == IF Len(call.link) = 1 THEN call.src ELSE <<"..">> \o call.src

\* C8: a call that repeats the arguments of the call before it, which
\* succeeded, performs no filesystem operation (no unlink, no ln), leaves the
\* tree, and so the link, as it was, succeeds, and yields the same redirect
\* rule as the first call.
C8_EnsureLinkIdempotent ==
    call.repeat =>
        /\ call.ops = <<>>
        /\ call.err = ""
        /\ fs = call.before
        /\ fs[CallLinkPath] = LinkNode(CallRelTarget)
        /\ call.rule = call.prevrule

\* a second identical call after a first one that created or moved the link
C8_Witness ==
    /\ call.repeat
    /\ call.n >= 2
    /\ call.err = ""
    /\ Islink(fs, CallLinkPath)
    /\ call.topdir = LOCAL_DIRECT_DIR
    /\ call.rule # ""

\* C9: whenever a link exists at linkName pointing somewhere other than the
\* requested target, and the requested target exists, the call removes the
\* old link and recreates it: afterwards the link holds the relative path of
\* the new target and, where the caller emits a redirect rule (add_link, for
\* the aliases of the direct-download area; not add_pkg_build_input, for
\* latest-build), the rule names the new target; also when the old link's
\* target no longer exists.
C9_EnsureLinkRetargets ==
    ( /\ call.n > 0
      /\ Islink(call.before, CallLinkPath)
      /\ Readlink(call.before, CallLinkPath) # CallRelTarget
      /\ Exists(call.before, CallSrcPath) ) =>
        /\ call.err = ""
        /\ call.ops = <<"unlink", "ln">>
        /\ fs[CallLinkPath] = LinkNode(CallRelTarget)
        /\ call.rule =
              IF call.topdir = LOCAL_DIRECT_DIR
              THEN "redirect permanent " \o HTTP_DIRECT_DIR \o "/" \o PathStr(call.link)
                   \o " " \o HTTP_DIRECT_DIR \o "/" \o PathStr(call.src) \o "\n"
              ELSE ""

\* add_link found latest-virtio pointing at a release directory that is
\* gone, was asked for another release, which exists, and failed leaving
\* that link in place
C9_Witness ==
    /\ call.n > 0
    /\ call.topdir = LOCAL_DIRECT_DIR
    /\ call.link = <<"latest-virtio">>
    /\ Islink(call.before, CallLinkPath)
    /\ ~Exists(call.before, CallLinkPath)
    /\ Readlink(call.before, CallLinkPath) # CallRelTarget
    /\ Exists(call.before, CallSrcPath)
    /\ call.err = "ExternalToolError"
    /\ fs = call.before

\* C10: a call whose target does not exist fails with BrokenTargetError,
\* having performed no filesystem operation: a link that was at linkName is
\* still there, unchanged.
C10_BrokenTargetFails ==
    (call.n > 0 /\ ~Exists(call.before, CallSrcPath)) =>
        /\ call.err = "BrokenTargetError"
        /\ call.ops = <<>>
        /\ fs = call.before

\* add_link failed on a missing release directory while latest-virtio was
\* in place
C10_Witness ==
    /\ call.n > 0
    /\ call.topdir = LOCAL_DIRECT_DIR
    /\ call.link = <<"latest-virtio">>
    /\ call.err = "BrokenTargetError"
    /\ Islink(fs, CallLinkPath)
    /\ CallSrcPath \notin DOMAIN fs

---------------------------------------------------------------------------
(* The two rsync commands on their own (specification SpecFilter): one     *)
(* real content command and then one real metadata command, over every     *)
(* pair of source and destination trees drawn from two top-level           *)
(* directories with a package and a metadata directory each.               *)

SyncUniverse(top) ==
    { Entry(<<top>>, TRUE),
      Entry(<<top, "virtio-win.rpm">>, FALSE),
      Entry(<<top, "repodata">>, TRUE),
      Entry(<<top, "repodata", "repomd.xml">>, FALSE) }

\* the trees over two top-level directories: every entry has its parent
SyncTrees ==
    { t \in SUBSET (SyncUniverse("latest") \cup SyncUniverse("stable")) :
        \A e \in t : Len(e.path) > 1 => Parent(e) \in t }

InitFilter ==
    /\ sync \in { [stage |-> "start", src |-> s, dst |-> d, before |-> d] :
                      s \in SyncTrees, d \in SyncTrees }
    /\ fs = Skeleton
    /\ call = NoCall
    /\ pc = "idle"
    /\ opts = NoOptions
    /\ build = NoBuild
    /\ cmds = <<>>
    /\ confirm = "none"
    /\ failure = ""
    /\ notes = {}
    /\ indexed = <<>>
    /\ runs = 0
    /\ buildroot = NoRoot
    /\ steps = <<>>
    /\ before = fs
    /\ remote = Skeleton

\* line 352, not a dry run
ContentPhase ==
    /\ sync.stage = "start"
    /\ sync' = [sync EXCEPT !.stage = RsyncPhases[1],
                            !.before = sync.dst,
                            !.dst = Rsync(PhaseOpts(RsyncPhases[1]), sync.src, sync.dst)]
    /\ UNCHANGED <<fs, pc, opts, build, cmds, confirm, failure, notes, indexed, runs, call,
                   buildroot, steps, before, remote>>

\* line 360, not a dry run
MetadataPhase ==
    /\ sync.stage = RsyncPhases[1]
    /\ sync' = [sync EXCEPT !.stage = RsyncPhases[2],
                            !.before = sync.dst,
                            !.dst = Rsync(PhaseOpts(RsyncPhases[2]), sync.src, sync.dst)]
    /\ UNCHANGED <<fs, pc, opts, build, cmds, confirm, failure, notes, indexed, runs, call,
                   buildroot, steps, before, remote>>

NextFilter == ContentPhase \/ MetadataPhase

SpecFilter == InitFilter /\ [][NextFilter]_vars

\* a path outside every metadata directory: no component is "repodata"
OutsideMetadata(e) == \A k \in 1..Len(e.path) : e.path[k] # "repodata"

\* C3: the metadata phase's filter reaches no path outside a metadata
\* directory: the delete-enabled metadata phase leaves every destination
\* path outside the metadata directories as it was, neither creating nor
\* deleting one.
C3_MetadataPhaseStaysInMetadata ==
    sync.stage = "metadata" =>
        /\ \A e \in sync.before : OutsideMetadata(e) => e \in sync.dst
        /\ \A e \in sync.dst : OutsideMetadata(e) => e \in sync.before

\* the metadata phase removed a directory that lies outside every metadata
\* directory and that the source does not have
C3_Witness ==
    /\ sync.stage = "metadata"
    /\ \E e \in sync.before \ sync.dst : OutsideMetadata(e) /\ e.dir /\ e \notin sync.src

\* what does hold: the metadata phase touches no regular file outside the
\* metadata directories, and only removes a directory there once nothing
\* is left inside it
MetadataPhaseKeepsFiles ==
    sync.stage = "metadata" =>
        /\ \A e \in sync.before : (OutsideMetadata(e) /\ ~e.dir) => e \in sync.dst
        /\ \A e \in sync.dst : OutsideMetadata(e) => e \in sync.before
        /\ \A e \in sync.before \ sync.dst :
              OutsideMetadata(e) => \A x \in sync.dst : Len(x.path) = 1 \/ Parent(x) # e

---------------------------------------------------------------------------
(* The tree-population steps repeated (specification SpecRepeat): one      *)
(* _populate_local_tree over a clean buildroot, in which any LocalRepo     *)
(* method that has already been called may be called once more, with the   *)
(* same arguments, on the tree as it then is.                              *)

MaxRepeats == 2

\* a LocalRepo method called with the arguments _populate_local_tree gives it
Call(name, f, b) ==
    CASE name = "add_qemuga" -> add_qemuga(f, b, qemugapaths(b))
      [] name = "add_virtiowin_media" -> add_virtiowin_media(f, b, virtiopaths(b))
      [] name = "add_virtiogt" ->
            [fs |-> add_virtiogt(f, b, virtiogtpaths(b)), err |-> "", notes |-> {}]
      [] name = "add_htaccess_stable_links" -> add_htaccess_stable_links(f, b)
      [] name = "add_pkg_build_input" -> add_pkg_build_input(f, b)
      [] name = "add_rpms" ->
            [fs |-> add_rpms(f, b, rpms(b)), err |-> "", notes |-> {}]

InitRepeat ==
    /\ fs = InitialTree
    /\ buildroot \in CleanRoots
    /\ pc = "populate"
    /\ opts = [rpm_output |-> TRUE, rpm_buildroot |-> TRUE,
               regenerate_only |-> FALSE, resync |-> FALSE, FAS_USERNAME |-> TRUE]
    /\ build = NoBuild
    /\ cmds = <<>>
    /\ confirm = "none"
    /\ failure = ""
    /\ notes = {}
    /\ indexed = <<>>
    /\ runs = 1
    /\ call = NoCall
    /\ sync = NoSync
    /\ steps = <<>>
    /\ before = fs
    /\ remote = Skeleton

\* a method that was called before is called again
Repeat ==
    /\ pc \notin Terminal
    /\ Len(steps) - Cardinality(StepNames) < MaxRepeats
    /\ \E name \in StepNames \ {"populate_local_tree"} :
          \E r \in {Call(name, fs, build)} :
             /\ fs' = r.fs
             /\ failure' = r.err
             /\ notes' = notes \cup r.notes
             /\ steps' = Append(steps, name)
             /\ pc' = IF r.err = "" THEN pc ELSE fail
    /\ UNCHANGED <<opts, build, cmds, confirm, indexed, runs, call, sync,
                   buildroot, before, remote>>

NextRepeat ==
    \/ Discover
    \/ AddQemuga
    \/ AddVirtiowinMedia
    \/ AddVirtiogt
    \/ AddHtaccessStableLinks
    \/ AddPkgBuildInput
    \/ AddRpms
    \/ Repeat

SpecRepeat == InitRepeat /\ [][NextRepeat]_vars

\* C16: a tree-population step called again for the same release and
\* artifacts, on a tree where it has completed, succeeds and leaves the
\* mirror tree as it was, for the companion-installer copy, the
\* supplementary-installer copy, the top-level alias update, the build-input
\* snapshot and the package copy; the disk-image copy called again fails.
C16_StepsSafeToRepeat ==
    [][ \A name \in StepNames :
           steps' = Append(steps, name) =>
               IF name = "add_virtiowin_media"
               THEN failure' = "AlreadyPublishedError" /\ fs' = fs
               ELSE failure' = "" /\ fs' = fs ]_vars

\* after a complete population, the package copy and then the top-level
\* alias update were called again and succeeded
C16_Witness ==
    /\ steps = PopulateSteps \o <<"add_rpms", "add_htaccess_stable_links">>
    /\ failure = ""
    /\ pc = "generate"
    /\ Islink(fs, Append(LOCAL_DIRECT_DIR, "latest-virtio"))

---------------------------------------------------------------------------
(* The derivation of the release identifiers on its own (specification     *)
(* SpecExtract): lines 222-242 applied to buildroots holding no, one or    *)
(* two extracted trees and companion directories, and to every basename    *)
(* "virtio-win<body>.x86_64" whose body is built from BodyChars.           *)

MaxBodyLen == 6

BodyChars == {"-", ".", "1", "a"}

Bodies == UNION { [1..n -> BodyChars] : n \in 0..MaxBodyLen }

ExtractRoots ==
    { CleanRoot(GlobPrefix \o b \o GlobSuffix, "qemu-ga-win-101.1.0-1.el7ev") :
          b \in Bodies }
    \cup
    { [CleanRoot(Basename200, "qemu-ga-win-101.1.0-1.el7ev")
           EXCEPT !.extract_dirs = ds, !.qemuga_dirs = qs, !.sharedir = sh] :
          ds \in SUBSET {Basename189, Basename200},
          qs \in SUBSET QemugaBuilds,
          sh \in BOOLEAN }

InitExtract ==
    /\ buildroot \in ExtractRoots
    /\ pc = "populate"
    /\ opts = [rpm_output |-> TRUE, rpm_buildroot |-> TRUE,
               regenerate_only |-> FALSE, resync |-> FALSE, FAS_USERNAME |-> TRUE]
    /\ fs = Skeleton
    /\ build = NoBuild
    /\ cmds = <<>>
    /\ confirm = "none"
    /\ failure = ""
    /\ notes = {}
    /\ indexed = <<>>
    /\ runs = 1
    /\ call = NoCall
    /\ sync = NoSync
    /\ steps = <<>>
    /\ before = fs
    /\ remote = Skeleton

NextExtract == Discover

SpecExtract == InitExtract /\ [][NextExtract]_vars

\* the derivation has run and the identifiers were accepted
Accepted == steps = <<"populate_local_tree">> /\ pc = "add_qemuga"

\* C11: the derivation goes through only when exactly one directory matches
\* the extracted-tree pattern and exactly one matches the companion-agent
\* pattern: with no match or with several matches of either, it fails, and
\* no candidate is picked.
C11_ExactlyOneMatch ==
    ( /\ steps = <<"populate_local_tree">>
      /\ \/ Cardinality(buildroot.extract_dirs) # 1
         \/ Cardinality(buildroot.qemuga_dirs) # 1 ) =>
        /\ pc = "failed"
        /\ failure = "DiscoveryError"
        /\ build = NoBuild

\* two extracted trees were found and the run goes on with one of them
C11_Witness ==
    /\ Accepted
    /\ buildroot.extract_dirs = {Basename189, Basename200}
    /\ build.version = "virtio-win-0.1.189"

\* what does hold: no match at all is rejected, for either pattern
ZeroMatchesRejected ==
    ( /\ steps = <<"populate_local_tree">>
      /\ \/ buildroot.extract_dirs = {}
         \/ buildroot.qemuga_dirs = {} ) =>
        (pc = "failed" /\ build = NoBuild)

\* the single extracted tree of the buildroot
TheBasename == CHOOSE d \in buildroot.extract_dirs : TRUE

\* the basename without the architecture suffix
TheReleaseTag == SubSeq(TheBasename, 1, Len(TheBasename) - Len(GlobSuffix))

\* C12: a basename is either rejected or yields releaseTag = basename minus
\* the architecture suffix and distributionVersion = releaseTag minus its
\* trailing build suffix, where releaseTag is distributionVersion, "-" and a
\* suffix of digits only, and the version part after "virtio-win-" has a dot.
C12_ReleaseTagAndVersion ==
    (Accepted /\ Cardinality(buildroot.extract_dirs) = 1) =>
        /\ TheBasename = TheReleaseTag \o GlobSuffix
        /\ virtio_release_str(build) = Str(TheReleaseTag)
        /\ \E k \in 1..(Len(TheReleaseTag) - 1) :
              LET version == SubSeq(TheReleaseTag, 1, k - 1)
                  suffix  == SubSeq(TheReleaseTag, k + 1, Len(TheReleaseTag))
              IN /\ TheReleaseTag[k] = "-"
                 /\ \A i \in 1..Len(suffix) : suffix[i] \in Digits
                 /\ virtio_version_str(build) = Str(version)
                 /\ \E i \in (Len(GlobPrefix) + 2)..Len(version) : version[i] = "."

\* a basename was accepted whose build suffix is not a number
C12_Witness ==
    /\ Accepted
    /\ TheBasename = GlobPrefix \o <<"-", "1", ".", "-", "1", "a">> \o GlobSuffix
    /\ build.buildnum = "1a"

\* what does hold of an accepted basename: the release is the basename
\* without the architecture suffix, it is the version, "-" and the rest, the
\* version starts with "virtio-win-" and a digit or dot, and the rest holds
\* no "-"
AcceptedIdentifiers ==
    (Accepted /\ Cardinality(buildroot.extract_dirs) = 1) =>
        LET release == release_of(TheBasename)
            version == version_of(release)
            rest    == buildnum_of(release)
        IN /\ release = TheReleaseTag
           /\ release = version \o <<"-">> \o rest
           /\ virtio_release_str(build) = Str(release)
           /\ virtio_version_str(build) = Str(version)
           /\ MatchVersion(version)
           /\ \A i \in 1..Len(rest) : rest[i] # "-"

====
